---- MODULE Spec2Model ----
(***************************************************************************)
(* Model of sebaubuntu_libs/libandroid/partitions/partitions.py: the       *)
(* candidate-location generator, the property-file catalog, the            *)
(* construction of Partitions (system, vendor, then the remaining SSI and  *)
(* TREBLE models) and the accessors.                                       *)
(*                                                                         *)
(* A path is the sequence of its pathlib parts: Path("/d/system") is       *)
(* <<"/", "d", "system">>, Path(".") is << >>.  Two paths are equal when   *)
(* their parts are equal, as in pathlib (no ".." or symlink resolution).   *)
(***************************************************************************)
EXTENDS Naturals, Sequences, FiniteSets

VARIABLES
    dump_path,    \* self.dump_path
    files,        \* the filesystem: the set of paths that are regular files
    pc,           \* position inside / after Partitions.__init__
    idx,          \* position of the running for loop of lines 167-171
    partitions,   \* self.partitions, a dict kept in insertion order
    search,       \* history: per model, what its search generated and probed
    error,        \* the AssertionError raised by __init__, if any
    constructed,  \* TRUE once __init__ returned an instance to the caller
    result        \* what the last accessor call returned

vars == <<dump_path, files, pc, idx, partitions, search, error, constructed, result>>

-----------------------------------------------------------------------------
(* Bounds and inputs *)

\* Largest number of regular files present in the dump.
MaxFiles == 2

\* Dump roots: an ordinary absolute root, the relative root ".", a root whose
\* last part is a partition name, a root whose last part is "ramdisk", and
\* the filesystem top (parent = itself).
Roots ==
    { <<"/", "d">>, << >>, <<"/", "d", "system">>, <<"/", "d", "ramdisk">>, <<"/">> }

\* pathlib: Path.parent (the parent of "." is ".", the parent of "/" is "/").
Parent(p) ==
    IF p = << >> \/ p = <<"/">> THEN p ELSE SubSeq(p, 1, Len(p) - 1)

\* The regular files a dump rooted at R may hold.
FileUniverse(R) ==
    { R \o <<"system", "build.prop">>,
      R \o <<"system", "system", "build.prop">>,
      R \o <<"system", "system", "default.prop">>,
      R \o <<"system", "vendor", "build.prop">>,
      R \o <<"system", "system", "vendor", "build.prop">>,
      R \o <<"system", "product", "build.prop">>,
      R \o <<"vendor", "build.prop">>,
      R \o <<"vendor", "odm", "build.prop">>,
      R \o <<"product", "build.prop">>,
      R \o <<"odm", "etc", "build.prop">>,
      R \o <<"system_ext", "build.prop">>,
      R \o <<"build.prop">>,
      R \o <<"boot", "ramdisk", "system", "prop.default">>,
      R \o <<"vendor_boot", "ramdisk", "vendor", "default.prop">>,
      Parent(R) \o <<"system", "build.prop">> }

RECURSIVE SubsetsUpTo(_, _)
SubsetsUpTo(S, k) ==
    IF k = 0 THEN { {} }
    ELSE LET prev == SubsetsUpTo(S, k - 1)
         IN  prev \cup { F \cup {x} : F \in prev, x \in S }

IsStrictPrefix(p, q) == Len(p) < Len(q) /\ SubSeq(q, 1, Len(p)) = p

\* A regular file is not a directory: no file lies below another file.
Consistent(F) == \A p \in F, q \in F : ~IsStrictPrefix(p, q)

\* Path.is_file()
is_file(p) == p \in files

-----------------------------------------------------------------------------
(* partition_model.py and partition.py: the collaborators *)

SYSTEM == "system"
VENDOR == "vendor"
None == "None"

SSI == "SSI"
TREBLE == "TREBLE"

\* The catalog, in declaration order, with each model's group.
Catalog ==
    << [name |-> "system", group |-> SSI],
       [name |-> "product", group |-> SSI],
       [name |-> "system_ext", group |-> SSI],
       [name |-> "vendor", group |-> TREBLE],
       [name |-> "odm", group |-> TREBLE] >>

Models == { Catalog[i].name : i \in DOMAIN Catalog }

RECURSIVE NamesOf(_)
NamesOf(s) == IF s = << >> THEN << >> ELSE <<Head(s).name>> \o NamesOf(Tail(s))

\* PartitionModel.from_group(group): the models of the group, catalog order.
IsSSIEntry(e) == e.group = SSI
IsTREBLEEntry(e) == e.group = TREBLE
from_group(group) ==
    IF group = SSI THEN NamesOf(SelectSeq(Catalog, IsSSIEntry))
    ELSE NamesOf(SelectSeq(Catalog, IsTREBLEEntry))

\* PartitionModel.from_name(name): the model, or None for an unknown name.
from_name(name) == IF name \in Models THEN name ELSE None

\* AndroidPartition(model, path)
AndroidPartition(model, path) == [model |-> model, path |-> path]

\* BUILD_PROP_LOCATION, the canonical property files.
BUILD_PROP_LOCATION == << <<"build.prop">>, <<"etc", "build.prop">> >>

-----------------------------------------------------------------------------
(* get_extended_search_locations *)

standard_locations(base_path, partition_name) ==
    << base_path \o <<partition_name>>,
       base_path \o <<partition_name, partition_name>> >>

\* The variant whose vendor branch lists base_path/vendor/vendor, as the
\* system branch lists base_path/system/system.
extended_locations_vendor_like_system(base_path, partition_name) ==
    IF partition_name = "system" THEN
        << base_path \o <<"system">>,
           base_path \o <<"system", "system">>,
           base_path \o <<"boot", "ramdisk", "system">>,
           base_path \o <<"recovery", "ramdisk", "system">>,
           base_path \o <<"vendor_boot", "ramdisk", "system">>,
           Parent(base_path) \o <<"ramdisk", "system">>,
           Parent(base_path) \o <<"vendor_ramdisk", "system">> >>
    ELSE IF partition_name = "vendor" THEN
        << base_path \o <<"vendor">>,
           base_path \o <<"vendor", "vendor">>,
           base_path \o <<"boot", "ramdisk", "vendor">>,
           base_path \o <<"recovery", "ramdisk", "vendor">>,
           base_path \o <<"vendor_boot", "ramdisk", "vendor">>,
           Parent(base_path) \o <<"ramdisk", "vendor">>,
           Parent(base_path) \o <<"vendor_ramdisk", "vendor">> >>
    ELSE standard_locations(base_path, partition_name)

\* Lines 30-61.
extended_locations(base_path, partition_name) ==
    IF partition_name = "system" THEN
        << base_path \o <<"system">>,
           base_path \o <<"system", "system">>,
           base_path \o <<"boot", "ramdisk", "system">>,
           base_path \o <<"recovery", "ramdisk", "system">>,
           base_path \o <<"vendor_boot", "ramdisk", "system">>,
           Parent(base_path) \o <<"ramdisk", "system">>,
           Parent(base_path) \o <<"vendor_ramdisk", "system">> >>
    ELSE IF partition_name = "vendor" THEN
        << base_path \o <<"vendor">>,
           base_path \o <<"boot", "ramdisk", "vendor">>,
           base_path \o <<"recovery", "ramdisk", "vendor">>,
           base_path \o <<"vendor_boot", "ramdisk", "vendor">>,
           Parent(base_path) \o <<"ramdisk", "vendor">>,
           Parent(base_path) \o <<"vendor_ramdisk", "vendor">> >>
    ELSE standard_locations(base_path, partition_name)

global_locations(base_path, partition_name) ==
    << base_path \o <<partition_name>>,
       base_path \o <<"boot", "ramdisk", partition_name>>,
       base_path \o <<"recovery", "ramdisk", partition_name>>,
       base_path \o <<"vendor_boot", "ramdisk", partition_name>>,
       Parent(base_path) \o <<partition_name>>,
       Parent(base_path) \o <<"ramdisk", partition_name>>,
       Parent(base_path) \o <<"vendor_ramdisk", partition_name>>,
       Parent(Parent(base_path)) \o <<partition_name>> >>

\* The loop of lines 85-90: keep a location unless it was seen before.
RECURSIVE UniqueLoop(_, _, _, _)
UniqueLoop(locations, i, seen, unique) ==
    IF i > Len(locations) THEN unique
    ELSE IF locations[i] \notin seen
         THEN UniqueLoop(locations, i + 1, seen \cup {locations[i]},
                         Append(unique, locations[i]))
         ELSE UniqueLoop(locations, i + 1, seen, unique)

\* The variant that returns locations without removing anything.
unique_locations_keep_all(locations) == locations

unique_locations(locations) == UniqueLoop(locations, 1, {}, << >>)

get_extended_search_locations(base_path, partition_name) ==
    unique_locations(extended_locations(base_path, partition_name)
                     \o global_locations(base_path, partition_name))

-----------------------------------------------------------------------------
(* get_extended_build_prop_locations *)

get_extended_build_prop_locations ==
    << <<"build.prop">>,
       <<"default.prop">>,
       <<"prop.default">>,
       <<"etc", "build.prop">>,
       <<"system", "build.prop">>,
       <<"vendor", "build.prop">>,
       <<"product", "build.prop">>,
       <<"system_ext", "build.prop">>,
       <<"odm", "build.prop">> >>

\* list(BUILD_PROP_LOCATION) + extended_build_prop_locations
all_prop_locations == BUILD_PROP_LOCATION \o get_extended_build_prop_locations

-----------------------------------------------------------------------------
(* self.partitions: a dict, modelled as the sequence of its values in      *)
(* insertion order; a value carries its key in .model                      *)

InDict(d, k) == \E i \in DOMAIN d : d[i].model = k

GetItem(d, k) == d[CHOOSE i \in DOMAIN d : d[i].model = k]

\* d[k] = v: a new key goes last, an existing key keeps its place.
SetItem(d, k, v) ==
    IF InDict(d, k)
    THEN [i \in DOMAIN d |-> IF d[i].model = k THEN v ELSE d[i]]
    ELSE Append(d, v)

-----------------------------------------------------------------------------
(* The search loops *)

\* The inner for loop over all_prop_locations, run for the i-th location:
\* probes location / prop in order and breaks at the first regular file.
\* Returns whether it hit and the probes it made, a probe <<i, j>> being
\* the is_file() call on the i-th location and the j-th property file.
RECURSIVE PropLoop(_, _, _, _, _)
PropLoop(location, i, props, j, probes) ==
    IF j > Len(props) THEN [hit |-> FALSE, probes |-> probes]
    ELSE LET prop_file == location \o props[j]
             made == Append(probes, <<i, j>>)
         IN  IF is_file(prop_file)
             THEN [hit |-> TRUE, probes |-> made]
             ELSE PropLoop(location, i, props, j + 1, made)

\* The state a search loop carries: the dict, the found flag, and the
\* history of the locations entered (their positions in the list) and of
\* the probes made.
LoopStart(parts) ==
    [parts |-> parts, found |-> FALSE, visited |-> << >>, probes |-> << >>]

\* Lines 128-140 without the "if system_found: break" of lines 129-130.
RECURSIVE SystemLoopNoBreak(_, _, _)
SystemLoopNoBreak(locs, i, st) ==
    IF i > Len(locs) THEN st
    ELSE LET r == PropLoop(locs[i], i, all_prop_locations, 1, << >>)
         IN  SystemLoopNoBreak(locs, i + 1,
               [parts   |-> IF r.hit
                            THEN SetItem(st.parts, SYSTEM,
                                         AndroidPartition(SYSTEM, locs[i]))
                            ELSE st.parts,
                found   |-> st.found \/ r.hit,
                visited |-> Append(st.visited, i),
                probes  |-> st.probes \o r.probes])

\* Lines 128-140.
RECURSIVE SystemLoop(_, _, _)
SystemLoop(locs, i, st) ==
    IF i > Len(locs) THEN st
    ELSE IF st.found THEN st
    ELSE LET r == PropLoop(locs[i], i, all_prop_locations, 1, << >>)
         IN  SystemLoop(locs, i + 1,
               [parts   |-> IF r.hit
                            THEN SetItem(st.parts, SYSTEM,
                                         AndroidPartition(SYSTEM, locs[i]))
                            ELSE st.parts,
                found   |-> r.hit,
                visited |-> Append(st.visited, i),
                probes  |-> st.probes \o r.probes])

\* Lines 152-161.
RECURSIVE VendorLoop(_, _, _)
VendorLoop(locs, i, st) ==
    IF i > Len(locs) THEN st
    ELSE IF st.found THEN st
    ELSE LET r == PropLoop(locs[i], i, all_prop_locations, 1, << >>)
         IN  VendorLoop(locs, i + 1,
               [parts   |-> IF r.hit
                            THEN SetItem(st.parts, VENDOR,
                                         AndroidPartition(VENDOR, locs[i]))
                            ELSE st.parts,
                found   |-> r.hit,
                visited |-> Append(st.visited, i),
                probes  |-> st.probes \o r.probes])

\* Lines 203-211: the break test is "model in self.partitions".
RECURSIVE ExtendedLoop(_, _, _, _)
ExtendedLoop(model, locs, i, st) ==
    IF i > Len(locs) THEN st
    ELSE IF InDict(st.parts, model) THEN st
    ELSE LET r == PropLoop(locs[i], i, all_prop_locations, 1, << >>)
         IN  ExtendedLoop(model, locs, i + 1,
               [parts   |-> IF r.hit
                            THEN SetItem(st.parts, model,
                                         AndroidPartition(model, locs[i]))
                            ELSE st.parts,
                found   |-> r.hit,
                visited |-> Append(st.visited, i),
                probes  |-> st.probes \o r.probes])

\* What the history keeps of one search.
Unsearched ==
    [status |-> "UNSEARCHED", generated |-> << >>, searched |-> << >>,
     visited |-> << >>, probes |-> << >>]

Searched(model, generated, locs, st) ==
    [status    |-> IF InDict(st.parts, model) THEN "FOUND" ELSE "EXHAUSTED",
     generated |-> generated,
     searched  |-> locs,
     visited   |-> st.visited,
     probes    |-> st.probes]

-----------------------------------------------------------------------------
(* Partitions.__init__ *)

NoError == [partition |-> "none", searched |-> << >>]
NoResult == [call |-> "none", arg |-> None, value |-> << >>]

\* The AssertionError of line 142 / line 163: the partition it names and
\* the locations its message lists.
SystemNotFound(system_search_locations) ==
    [partition |-> "System", searched |-> system_search_locations]

\* The variant whose message leaves out the inserted first location.
VendorNotFoundGenericOnly(vendor_search_locations) ==
    [partition |-> "Vendor", searched |-> Tail(vendor_search_locations)]

VendorNotFound(vendor_search_locations) ==
    [partition |-> "Vendor", searched |-> vendor_search_locations]

\* The variant that appends <system path>/vendor instead of inserting it first.
vendor_search_locations_appended(generated, system_path) ==
    Append(generated, system_path \o <<"vendor">>)

\* Lines 147-150: the generated list with <system path>/vendor inserted first.
vendor_search_locations(generated, system_path) ==
    <<system_path \o <<"vendor">>>> \o generated

\* The variant whose third extra location is the dump root itself.
possible_locations_with_root(generated, name) ==
    generated \o << GetItem(partitions, SYSTEM).path \o <<name>>,
                    GetItem(partitions, VENDOR).path \o <<name>>,
                    dump_path >>

\* Lines 194-201: the generated list extended by three more locations.
possible_locations(generated, name) ==
    generated \o << GetItem(partitions, SYSTEM).path \o <<name>>,
                    GetItem(partitions, VENDOR).path \o <<name>>,
                    dump_path \o <<name>> >>

IsNotSystem(model) == model # SYSTEM
IsNotVendor(model) == model # VENDOR

\* The variant that iterates the TREBLE group in the first loop.
ssi_models_treble_first == SelectSeq(from_group(TREBLE), IsNotSystem)

\* Line 167: the SSI models but SYSTEM; line 170: the TREBLE models but VENDOR.
ssi_models == SelectSeq(from_group(SSI), IsNotSystem)

treble_models == SelectSeq(from_group(TREBLE), IsNotVendor)

Init ==
    /\ dump_path \in Roots
    /\ files \in { F \in SubsetsUpTo(FileUniverse(dump_path), MaxFiles) :
                     Consistent(F) }
    /\ pc = "system"
    /\ idx = 1
    /\ partitions = << >>
    /\ search = [m \in Models |-> Unsearched]
    /\ error = NoError
    /\ constructed = FALSE
    /\ result = NoResult

\* Lines 123-143.
SearchSystem ==
    /\ pc = "system"
    /\ LET locs == get_extended_search_locations(dump_path, "system")
           st == SystemLoop(locs, 1, LoopStart(partitions))
       IN  /\ search' = [search EXCEPT ![SYSTEM] = Searched(SYSTEM, locs, locs, st)]
           /\ partitions' = st.parts
           /\ IF InDict(st.parts, SYSTEM)
              THEN pc' = "vendor" /\ error' = error
              ELSE pc' = "failed" /\ error' = SystemNotFound(locs)
    /\ UNCHANGED <<dump_path, files, idx, constructed, result>>

\* Lines 145-164.
SearchVendor ==
    /\ pc = "vendor"
    /\ LET generated == get_extended_search_locations(dump_path, "vendor")
           locs == vendor_search_locations(generated, GetItem(partitions, SYSTEM).path)
           st == VendorLoop(locs, 1, LoopStart(partitions))
       IN  /\ search' = [search EXCEPT ![VENDOR] = Searched(VENDOR, generated, locs, st)]
           /\ partitions' = st.parts
           /\ IF InDict(st.parts, VENDOR)
              THEN pc' = "ssi" /\ error' = error
              ELSE pc' = "failed" /\ error' = VendorNotFound(locs)
    /\ UNCHANGED <<dump_path, files, idx, constructed, result>>

\* Lines 188-211: _search_for_partition_extended(model).
search_for_partition_extended(model) ==
    LET generated == get_extended_search_locations(dump_path, model)
        locs == possible_locations(generated, model)
        st == ExtendedLoop(model, locs, 1, LoopStart(partitions))
    IN  /\ search' = [search EXCEPT ![model] = Searched(model, generated, locs, st)]
        /\ partitions' = st.parts

\* Lines 167-168: one iteration of the loop over the SSI models.
SearchSSI ==
    /\ pc = "ssi"
    /\ idx <= Len(ssi_models)
    /\ search_for_partition_extended(ssi_models[idx])
    /\ idx' = idx + 1
    /\ UNCHANGED <<dump_path, files, pc, error, constructed, result>>

\* Line 170: the SSI loop is over, the TREBLE loop starts.
EndSSI ==
    /\ pc = "ssi"
    /\ idx > Len(ssi_models)
    /\ pc' = "treble"
    /\ idx' = 1
    /\ UNCHANGED <<dump_path, files, partitions, search, error, constructed, result>>

\* Lines 170-171: one iteration of the loop over the TREBLE models.
SearchTREBLE ==
    /\ pc = "treble"
    /\ idx <= Len(treble_models)
    /\ search_for_partition_extended(treble_models[idx])
    /\ idx' = idx + 1
    /\ UNCHANGED <<dump_path, files, pc, error, constructed, result>>

\* __init__ returns: the caller holds the instance.
Return ==
    /\ pc = "treble"
    /\ idx > Len(treble_models)
    /\ pc' = "done"
    /\ constructed' = TRUE
    /\ UNCHANGED <<dump_path, files, idx, partitions, search, error, result>>

-----------------------------------------------------------------------------
(* The accessors.  A returned partition is the one-element sequence        *)
(* <<partition>>, a returned None the empty sequence.                      *)

\* The variant that answers for a model that is not in the table.
get_partition_unchecked(model) ==
    IF model = None THEN << >>
    ELSE IF InDict(partitions, model) THEN <<GetItem(partitions, model)>>
    ELSE <<AndroidPartition(model, dump_path \o <<model>>)>>

\* Lines 173-180.
get_partition(model) ==
    IF model = None THEN << >>
    ELSE IF InDict(partitions, model) THEN <<GetItem(partitions, model)>>
    ELSE << >>

get_partition_by_name(name) == get_partition(from_name(name))

get_all_partitions == partitions

GetPartition ==
    /\ constructed
    /\ \E model \in Models \cup {None} :
         result' = [call |-> "get_partition", arg |-> model,
                    value |-> get_partition(model)]
    /\ UNCHANGED <<dump_path, files, pc, idx, partitions, search, error, constructed>>

GetPartitionByName ==
    /\ constructed
    /\ \E name \in {"vendor", "product", "unknown_partition"} :
         result' = [call |-> "get_partition_by_name", arg |-> name,
                    value |-> get_partition_by_name(name)]
    /\ UNCHANGED <<dump_path, files, pc, idx, partitions, search, error, constructed>>

GetAllPartitions ==
    /\ constructed
    /\ result' = [call |-> "get_all_partitions", arg |-> None,
                  value |-> get_all_partitions]
    /\ UNCHANGED <<dump_path, files, pc, idx, partitions, search, error, constructed>>

Next ==
    \/ SearchSystem
    \/ SearchVendor
    \/ SearchSSI
    \/ EndSSI
    \/ SearchTREBLE
    \/ Return
    \/ GetPartition
    \/ GetPartitionByName
    \/ GetAllPartitions

Spec == Init /\ [][Next]_vars

-----------------------------------------------------------------------------
(* Vocabulary of the properties *)

NoDuplicates(s) == \A i, j \in DOMAIN s : i # j => s[i] # s[j]

IsPrefixOf(p, s) == Len(p) <= Len(s) /\ SubSeq(s, 1, Len(p)) = p

LastPart(p) == p[Len(p)]

\* s with every occurrence of an element after its first removed.
RECURSIVE FirstOccurrences(_)
FirstOccurrences(s) ==
    IF s = << >> THEN << >>
    ELSE LET front == SubSeq(s, 1, Len(s) - 1)
             last == s[Len(s)]
         IN  IF \E i \in DOMAIN front : front[i] = last
             THEN FirstOccurrences(front)
             ELSE Append(FirstOccurrences(front), last)

\* Some combined property file of the directory is a regular file.
HasPropertyFile(dir) ==
    \E k \in DOMAIN all_prop_locations : is_file(dir \o all_prop_locations[k])

\* Every (directory, file) pair of a candidate list, candidates in list
\* order and, within a candidate, files in combined-list order.
RECURSIVE PairsInOrder(_)
PairsInOrder(n) ==
    IF n = 0 THEN << >>
    ELSE PairsInOrder(n - 1) \o [k \in DOMAIN all_prop_locations |-> <<n, k>>]

\* The probe <<i, j>> of m's search met a regular file.
PairIsFile(m, pair) ==
    is_file(search[m].searched[pair[1]] \o all_prop_locations[pair[2]])

\* The directories m's search entered, in the order it entered them.
VisitedDirs(m) ==
    [k \in DOMAIN search[m].visited |-> search[m].searched[search[m].visited[k]]]

WasSearched(m) == search[m].status # "UNSEARCHED"

PathOf(m) == GetItem(partitions, m).path

Keys(d) == [i \in DOMAIN d |-> d[i].model]

Optional == Models \ {SYSTEM, VENDOR}

\* The directories the contract names for an optional identity.
OptionalDirs(m) ==
    { get_extended_search_locations(dump_path, m)[i] :
        i \in DOMAIN get_extended_search_locations(dump_path, m) }
    \cup { PathOf(SYSTEM) \o <<m>>, PathOf(VENDOR) \o <<m>>, dump_path \o <<m>> }

OptionalMatches(m) == \E d \in OptionalDirs(m) : HasPropertyFile(d)

-----------------------------------------------------------------------------
(* C1 *)

SystemAsRootFiles ==
    { dump_path \o <<"vendor", "build.prop">>,
      dump_path \o <<"system", "system", "build.prop">> }

\* C1: on a root whose only regular files are R/vendor/build.prop and
\* R/system/system/build.prop, construction succeeds with System resolved
\* to R/system/system and Vendor resolved to R/vendor.
C1_SystemAsRootResolvesNested ==
    (files = SystemAsRootFiles /\ pc \in {"done", "failed"}) =>
        /\ pc = "done"
        /\ PathOf(SYSTEM) = dump_path \o <<"system", "system">>
        /\ PathOf(VENDOR) = dump_path \o <<"vendor">>

-----------------------------------------------------------------------------
(* C2 *)

FirstMatchWins(m) ==
    LET all == PairsInOrder(Len(search[m].searched))
        probes == search[m].probes
    IN  /\ IsPrefixOf(probes, all)
        /\ \A k \in 1..(Len(probes) - 1) : ~PairIsFile(m, probes[k])
        /\ IF \E k \in DOMAIN all : PairIsFile(m, all[k])
           THEN /\ probes # << >>
                /\ PairIsFile(m, probes[Len(probes)])
                /\ search[m].status = "FOUND"
                /\ InDict(partitions, m)
                /\ PathOf(m) = search[m].searched[probes[Len(probes)][1]]
           ELSE /\ probes = all
                /\ search[m].status = "EXHAUSTED"
                /\ ~InDict(partitions, m)

\* C2: for every identity searched, the probes follow the candidate list
\* and, within a candidate, the combined file list; they stop at the first
\* pair that is a regular file, whose directory is the one recorded, and
\* that directory stays the recorded one in every later state.
C2_FirstMatchShortCircuit == \A m \in Models : WasSearched(m) => FirstMatchWins(m)

\* An identity found at a candidate while a later candidate holds a
\* property file too.
C2_Witness ==
    \E m \in Models :
        /\ search[m].status = "FOUND"
        /\ \E i \in DOMAIN search[m].searched :
             /\ HasPropertyFile(search[m].searched[i])
             /\ search[m].searched[i] # PathOf(m)

-----------------------------------------------------------------------------
(* C3 *)

SystemCandidates == get_extended_search_locations(dump_path, "system")

VendorCandidates ==
    <<PathOf(SYSTEM) \o <<"vendor">>>> \o get_extended_search_locations(dump_path, "vendor")

NothingReturned == ~constructed /\ result = NoResult

\* C3: when no candidate of a mandatory partition holds a property file,
\* construction fails with an error naming that partition and listing every
\* candidate attempted (for Vendor with <System path>/vendor first); after a
\* System failure nothing else is probed; no instance is returned.
C3_MandatoryFailure ==
    /\ (pc # "system" /\ \A i \in DOMAIN SystemCandidates :
                            ~HasPropertyFile(SystemCandidates[i]))
         => /\ pc = "failed"
            /\ error = [partition |-> "System", searched |-> SystemCandidates]
            /\ VisitedDirs(SYSTEM) = SystemCandidates
            /\ \A m \in Models \ {SYSTEM} : search[m] = Unsearched
            /\ partitions = << >>
            /\ NothingReturned
    /\ (InDict(partitions, SYSTEM) /\ pc # "vendor"
          /\ \A i \in DOMAIN VendorCandidates : ~HasPropertyFile(VendorCandidates[i]))
         => /\ pc = "failed"
            /\ error = [partition |-> "Vendor", searched |-> VendorCandidates]
            /\ VisitedDirs(VENDOR) = VendorCandidates
            /\ \A m \in Optional : search[m] = Unsearched
            /\ NothingReturned
    /\ pc = "failed" =>
            /\ NothingReturned
            /\ \/ search[SYSTEM].status = "EXHAUSTED"
               \/ search[VENDOR].status = "EXHAUSTED"

C3_Witness ==
    /\ pc = "failed"
    /\ error.partition = "Vendor"
    /\ search[SYSTEM].status = "FOUND"

-----------------------------------------------------------------------------
(* C4 *)

\* C4: the list searched for Vendor is <System path>/vendor followed by the
\* generated "vendor" candidates in their order; <System path>/vendor is
\* probed first and Vendor resolves to it whenever it holds a property file.
C4_VendorSeededBySystem ==
    WasSearched(VENDOR) =>
        /\ search[VENDOR].searched = VendorCandidates
        /\ Tail(search[VENDOR].searched) = search[VENDOR].generated
        /\ VisitedDirs(VENDOR)[1] = PathOf(SYSTEM) \o <<"vendor">>
        /\ search[VENDOR].probes[1] = <<1, 1>>
        /\ HasPropertyFile(PathOf(SYSTEM) \o <<"vendor">>) =>
              /\ search[VENDOR].status = "FOUND"
              /\ PathOf(VENDOR) = PathOf(SYSTEM) \o <<"vendor">>

\* Both <System path>/vendor and the generic R/vendor hold a property file.
C4_Witness ==
    /\ search[VENDOR].status = "FOUND"
    /\ PathOf(VENDOR) = PathOf(SYSTEM) \o <<"vendor">>
    /\ HasPropertyFile(dump_path \o <<"vendor">>)
    /\ dump_path \o <<"vendor">> # PathOf(VENDOR)

-----------------------------------------------------------------------------
(* C5 *)

\* C5: with System and Vendor found, an optional identity none of whose
\* candidates holds a property file does not make construction fail: it is
\* absent from the table and get_partition returns None for it.
C5_OptionalAbsence ==
    /\ (search[SYSTEM].status = "FOUND" /\ search[VENDOR].status = "FOUND")
         => pc # "failed" /\ error = NoError
    /\ \A p \in Optional :
         (WasSearched(p) /\ ~OptionalMatches(p)) =>
            /\ pc # "failed"
            /\ search[p].status = "EXHAUSTED"
            /\ ~InDict(partitions, p)
            /\ get_partition(p) = << >>
            /\ get_partition_by_name(p) = << >>
            /\ (result.call \in {"get_partition", "get_partition_by_name"}
                  /\ result.arg = p) => result.value = << >>

C5_Witness ==
    /\ constructed
    /\ ~OptionalMatches("product")
    /\ result.call = "get_partition"
    /\ result.arg = "product"

-----------------------------------------------------------------------------
(* C6 *)

\* C6: the generated candidate list has no duplicate and is the identity
\* specific set followed by the global set with every later occurrence of
\* a path removed, also for a root that is its own parent.
C6_GeneratedDeduplicated ==
    \A m \in Models :
        WasSearched(m) =>
            /\ NoDuplicates(search[m].generated)
            /\ search[m].generated =
                 FirstOccurrences(extended_locations(dump_path, m)
                                  \o global_locations(dump_path, m))

C6_Witness ==
    /\ Parent(dump_path) = dump_path
    /\ WasSearched("odm")

-----------------------------------------------------------------------------
(* C7 *)

ClaimedVendorSet ==
    << dump_path \o <<"vendor">>,
       dump_path \o <<"vendor", "vendor">>,
       dump_path \o <<"boot", "ramdisk", "vendor">>,
       dump_path \o <<"recovery", "ramdisk", "vendor">>,
       dump_path \o <<"vendor_boot", "ramdisk", "vendor">>,
       Parent(dump_path) \o <<"ramdisk", "vendor">>,
       Parent(dump_path) \o <<"vendor_ramdisk", "vendor">> >>

ActualVendorSet ==
    << dump_path \o <<"vendor">>,
       dump_path \o <<"boot", "ramdisk", "vendor">>,
       dump_path \o <<"recovery", "ramdisk", "vendor">>,
       dump_path \o <<"vendor_boot", "ramdisk", "vendor">>,
       Parent(dump_path) \o <<"ramdisk", "vendor">>,
       Parent(dump_path) \o <<"vendor_ramdisk", "vendor">> >>

InSeq(x, s) == \E i \in DOMAIN s : s[i] = x

\* C7 as stated: the "vendor" candidates start with the System set with
\* "vendor" for "system" (duplicates removed), R/vendor/vendor being the
\* second candidate.
C7_VendorMirrorsSystem ==
    WasSearched(VENDOR) =>
        /\ IsPrefixOf(FirstOccurrences(ClaimedVendorSet), search[VENDOR].generated)
        /\ search[VENDOR].generated[2] = dump_path \o <<"vendor", "vendor">>

\* C7 amended: the "vendor" candidates start with R/vendor, the three
\* R/<image>/ramdisk/vendor and the two parent(R) ramdisk locations
\* (duplicates removed); the second candidate is R/boot/ramdisk/vendor and
\* R/vendor/vendor is no candidate at all.
C7_VendorSetWithoutNested ==
    WasSearched(VENDOR) =>
        /\ IsPrefixOf(FirstOccurrences(ActualVendorSet), search[VENDOR].generated)
        /\ search[VENDOR].generated[2] = dump_path \o <<"boot", "ramdisk", "vendor">>
        /\ ~InSeq(dump_path \o <<"vendor", "vendor">>, search[VENDOR].generated)
        /\ ~InSeq(dump_path \o <<"vendor", "vendor">>, search[VENDOR].searched)

C7_Witness == search[VENDOR].status = "EXHAUSTED"

-----------------------------------------------------------------------------
(* C8 *)

\* C8: within the search of one identity no candidate directory is entered
\* twice, so no (directory, file) pair is probed again.
C8_NoDirectoryProbedTwice ==
    \A m \in Models : NoDuplicates(VisitedDirs(m))

-----------------------------------------------------------------------------
(* C9 *)

IsFoundSSI(e) == e.group = SSI /\ e.name # SYSTEM /\ OptionalMatches(e.name)
IsFoundTREBLE(e) == e.group = TREBLE /\ e.name # VENDOR /\ OptionalMatches(e.name)

DiscoveryOrder ==
    <<SYSTEM, VENDOR>> \o NamesOf(SelectSeq(Catalog, IsFoundSSI))
                       \o NamesOf(SelectSeq(Catalog, IsFoundTREBLE))

-----------------------------------------------------------------------------
(* C10 *)

\* C10 as stated: every resolved path ends in its identity's name, no two
\* identities share a directory, and the dump root is never a resolved path.
C10_NameIsLastPartAndNeverRoot ==
    constructed =>
        /\ \A i \in DOMAIN partitions :
             /\ LastPart(partitions[i].path) = partitions[i].model
             /\ partitions[i].path # dump_path
        /\ NoDuplicates([i \in DOMAIN partitions |-> partitions[i].path])

\* C10 amended: every resolved path ends in its identity's name and no two
\* identities share a directory; the dump root is a resolved path only of
\* the identity whose name is the root's own last part.
C10_NameIsLastPart ==
    constructed =>
        /\ \A i \in DOMAIN partitions :
             /\ partitions[i].path # << >>
             /\ LastPart(partitions[i].path) = partitions[i].model
             /\ partitions[i].path = dump_path =>
                  /\ dump_path \notin {<< >>, <<"/">>}
                  /\ LastPart(dump_path) = partitions[i].model
        /\ NoDuplicates([i \in DOMAIN partitions |-> partitions[i].path])

C10_Witness ==
    /\ constructed
    /\ PathOf(SYSTEM) = dump_path
    /\ Len(partitions) >= 3

====
